---- MODULE Spec2Model ----
(***************************************************************************)
(* Room synchronization core of cosmic-player: the shared room document,   *)
(* the RoomProvider context of every client (contexts/RoomContext), the    *)
(* push subscription between them, and the MusicPlayer effects that read   *)
(* the client's view of the room (App).                                    *)
(*                                                                         *)
(* The store gateway (roomUtils: createRoom, joinRoom, leaveRoom,          *)
(* subscribeToRoom, updateRoomState) is not part of the sources; it is     *)
(* modelled from its contract in the specification.  A write is applied to *)
(* the document in the step that issues it, and the store then queues one  *)
(* push per subscribed client; a client's view (roomState) only changes    *)
(* when a queued push is delivered to its subscription callback.           *)
(***************************************************************************)
EXTENDS Integers, Sequences, FiniteSets, TLC

\* ---------------------------------------------------------------- bounds
MaxWrites == 4      \* writes the store applies in one run
MaxInbox == 2       \* pushes queued for one client and not yet delivered
MaxSubs == 1        \* subscriptions one client acquires in one run
MaxSessionSubs == 2 \* the same, in the runs of the session life cycle
MaxPlaylist == 2   \* entries of the playlist
MaxPos == 3         \* largest adapter position read by the polling timer
MaxDrift == 7       \* largest position the drift-sync effect is tried on
MaxSyncTimers == 2  \* pending 1000 ms timeouts of the room-sync effect
MaxPauseTimers == 2 \* pending 100 ms timeouts of the enable-audio code

\* ------------------------------------------------------------ value sets
Clients == {"alice", "bob"}
Founders == {"alice"}            \* the client that creates the room
Tracks == {"T1", "T2"}
Volumes == {0, 50}
Positions == 0..MaxPos
DriftPositions == 0..MaxDrift

RoomId == "ABC123"
Null == [null |-> TRUE]          \* null / absent value
NoWrite == [nowrite |-> TRUE]    \* an intent that issued no update
NoTrack == "none"                \* currentTrack absent
NoSeek == -1                     \* no seekTo command issued
NoHandle == 0                    \* window.roomUnsubscribe = null
Undefined == "undefined"         \* value of x?.id when x is null
InitialVolume == 50
DriftThreshold == 5
PublishEvery == 3

\* lastOp after a step that is no call of the RoomProvider interface
Idle == [op |-> "none", who |-> Undefined, arg |-> Undefined, upd |-> NoWrite]

NameOf(c) == IF c = "alice" THEN "Alice" ELSE "Bob"

VARIABLES
  doc,          \* the room document in the store, or Null
  writes,       \* number of writes the store has applied
  storedId,     \* localStorage 'userId' of each client, or Undefined
  currentUser,  \* RoomProvider state: Null or [id, name]
  roomState,    \* RoomProvider state: Null or the last pushed document
  timers,       \* pending setTimeout(subscribe) callbacks of each client
  subs,         \* live subscriptions of each client (handles)
  subCount,     \* subscriptions each client has created so far
  winUnsub,     \* window.roomUnsubscribe: the handle it releases, or NoHandle
  inbox,        \* pushes queued for each client, oldest first
  isPlayerReady,\* MusicPlayer state set by the adapter's onReady
  playerRef,    \* the adapter: the video it has loaded, whether it is playing
  position,     \* the adapter: its live position, getCurrentTime()
  mobileAudioEnabled, \* MusicPlayer state set by the enable-audio code
  isMobile,     \* whether the user agent of the client is a mobile one
  syncDeps,     \* dependencies the room-sync effect last ran with
  timeouts,     \* pending setTimeout callbacks of MusicPlayer, oldest first
  initializer,  \* the effect that creates the player: its retries and outcome
  lastOp        \* the operation of the last step: who ran it and what it issued

vars == <<doc, writes, storedId, currentUser, roomState, timers, subs,
          subCount, winUnsub, inbox, isPlayerReady, playerRef, position,
          mobileAudioEnabled, isMobile, syncDeps, timeouts, initializer,
          lastOp>>

adapterVars == <<playerRef, position, mobileAudioEnabled, isMobile, syncDeps,
                 timeouts, initializer>>

clientVars == <<storedId, currentUser, roomState, timers, subs, subCount, winUnsub>>

\* ------------------------------------------------------- RoomProvider view
isConnected(c) == roomState[c] # Null

IdOf(u) == IF u = Null THEN Undefined ELSE u.id

HostIdOf(r) == IF r = Null THEN Undefined ELSE r.hostId

isHost(c) == IdOf(currentUser[c]) = HostIdOf(roomState[c])

\* a render of the provider: the values its callbacks close over
Render(c) == [currentUser |-> currentUser[c], roomState |-> roomState[c]]

\* the first render, before any create, join or push
MountRender == [currentUser |-> Null, roomState |-> Null]

isHostIn(r) == IdOf(r.currentUser) = HostIdOf(r.roomState)

\* the guard every host intent starts with: if (!roomState || !isHost) return
Gate(r) == r.roomState # Null /\ isHostIn(r)

\* ------------------------------------------------------------ the gateway
Members(d) == DOMAIN d.members

InitialRoom(c) ==
  [id |-> RoomId, hostId |-> c, members |-> [m \in {c} |-> NameOf(c)],
   playlist |-> <<>>, currentTrack |-> NoTrack, isPlaying |-> FALSE,
   currentTime |-> 0, volume |-> InitialVolume]

\* joinRoom that replaces the member map by the joiner alone
AddMemberReplaces(d, c) ==
  [d EXCEPT !.members = [m \in {c} |-> NameOf(c)]]

AddMember(d, c) ==
  [d EXCEPT !.members = [m \in Members(d) \cup {c} |->
                           IF m = c THEN NameOf(c) ELSE d.members[m]]]

\* leaveRoom that makes a remaining member host when the host departs
RemoveMemberPromotes(d, c) ==
  [d EXCEPT !.members = [m \in Members(d) \ {c} |-> d.members[m]],
            !.hostId = IF d.hostId = c /\ Members(d) \ {c} # {}
                         THEN CHOOSE m \in Members(d) \ {c} : TRUE
                         ELSE @]

RemoveMember(d, c) ==
  [d EXCEPT !.members = [m \in Members(d) \ {c} |-> d.members[m]]]

updateRoomState(d, partial) ==
  [f \in DOMAIN d |-> IF f \in DOMAIN partial THEN partial[f] ELSE d[f]]

Listening(s, c) == s[c] # {}

CanWrite(s, box) ==
  /\ writes < MaxWrites
  /\ \A c \in Clients : Listening(s, c) => Len(box[c]) < MaxInbox

\* the store holds newDoc and queues a push for every client subscribed in s;
\* box is the queues before the write
Store(newDoc, s, box) ==
  /\ doc' = newDoc
  /\ writes' = writes + 1
  /\ inbox' = [c \in Clients |->
                 IF Listening(s, c) THEN Append(box[c], newDoc) ELSE box[c]]

\* MusicPlayer and its adapter right after mount: nothing loaded, the effects
\* have run once with roomState = null, no timeout is pending
MountDeps == [videoId |-> NoTrack, isPlaying |-> FALSE, ready |-> FALSE]

\* maxRetries of the effect that creates the player
maxRetries == 30

\* the initializer once new YT.Player(...) has returned on its first call
PlayerCreated ==
  [retryCount |-> 1, timers |-> 0, players |-> 1, ref |-> TRUE,
   status |-> "Creating YouTube player...", api |-> "ready",
   element |-> TRUE, mounted |-> TRUE]

AdapterAtMount ==
  /\ initializer = [c \in Clients |-> PlayerCreated]
  /\ playerRef = [c \in Clients |-> [videoId |-> NoTrack, playing |-> FALSE]]
  /\ position = [c \in Clients |-> 0]
  /\ mobileAudioEnabled = [c \in Clients |-> FALSE]
  /\ syncDeps = [c \in Clients |-> MountDeps]
  /\ timeouts = [c \in Clients |-> [sync |-> <<>>, pause |-> <<>>]]

\* ------------------------------------------------------------------ Init
Init ==
  /\ doc = Null
  /\ writes = 0
  /\ storedId = [c \in Clients |-> Undefined]
  /\ currentUser = [c \in Clients |-> Null]
  /\ roomState = [c \in Clients |-> Null]
  /\ timers = [c \in Clients |-> 0]
  /\ subs = [c \in Clients |-> {}]
  /\ subCount = [c \in Clients |-> 0]
  /\ winUnsub = [c \in Clients |-> NoHandle]
  /\ inbox = [c \in Clients |-> <<>>]
  /\ isPlayerReady = [c \in Clients |-> FALSE]
  /\ AdapterAtMount
  /\ isMobile = [c \in Clients |-> FALSE]
  /\ lastOp = Idle

\* --------------------------------------------- create / join / subscribe
\* what createNewRoom and joinExistingRoom do once the gateway call succeeded:
\* read the stored id, set currentUser, arm the 100 ms subscribe timer
Connecting(c) ==
  /\ storedId' = [storedId EXCEPT ![c] = c]
  /\ currentUser' = [currentUser EXCEPT ![c] = [id |-> c, name |-> NameOf(c)]]
  /\ timers' = [timers EXCEPT ![c] = @ + 1]
  /\ UNCHANGED <<roomState, subs, subCount, winUnsub>>

createNewRoom(c) ==
  /\ ~isConnected(c)
  /\ doc = Null /\ writes = 0
  /\ CanWrite(subs, inbox)
  /\ Store(InitialRoom(c), subs, inbox)
  /\ Connecting(c)
  /\ lastOp' = [op |-> "createNewRoom", who |-> c, arg |-> Undefined,
                upd |-> NoWrite, ok |-> TRUE, thrown |-> FALSE]
  /\ UNCHANGED <<isPlayerReady, adapterVars>>

\* createNewRoom whose catch only logs the error
createNewRoomRejectedSwallows(c) ==
  /\ ~isConnected(c)
  /\ lastOp' = [op |-> "createNewRoom", who |-> c, arg |-> Undefined,
                upd |-> NoWrite, ok |-> FALSE, thrown |-> FALSE]
  /\ UNCHANGED <<doc, writes, inbox, clientVars, isPlayerReady, adapterVars>>

\* createRoom rejects: the catch logs the error and throws it again
createNewRoomRejected(c) ==
  /\ ~isConnected(c)
  /\ lastOp' = [op |-> "createNewRoom", who |-> c, arg |-> Undefined,
                upd |-> NoWrite, ok |-> FALSE, thrown |-> TRUE]
  /\ UNCHANGED <<doc, writes, inbox, clientVars, isPlayerReady, adapterVars>>

\* joinExistingRoom that sets currentUser whatever joinRoom answered
joinExistingRoomSetsUserAnyway(c) ==
  /\ ~isConnected(c)
  /\ IF doc = Null
       THEN /\ currentUser' = [currentUser EXCEPT
                                 ![c] = [id |-> c, name |-> NameOf(c)]]
            /\ lastOp' = [op |-> "joinExistingRoom", who |-> c,
                          arg |-> Undefined, upd |-> NoWrite, ok |-> FALSE,
                          thrown |-> FALSE]
            /\ UNCHANGED <<doc, writes, inbox, storedId, roomState, timers,
                           subs, subCount, winUnsub, isPlayerReady, adapterVars>>
       ELSE /\ CanWrite(subs, inbox)
            /\ Store(AddMember(doc, c), subs, inbox)
            /\ Connecting(c)
            /\ lastOp' = [op |-> "joinExistingRoom", who |-> c,
                          arg |-> Undefined, upd |-> NoWrite, ok |-> TRUE,
                          thrown |-> FALSE]
            /\ UNCHANGED <<isPlayerReady, adapterVars>>

joinExistingRoom(c) ==
  /\ ~isConnected(c)
  /\ IF doc = Null
       THEN /\ lastOp' = [op |-> "joinExistingRoom", who |-> c,
                          arg |-> Undefined, upd |-> NoWrite, ok |-> FALSE,
                          thrown |-> FALSE]
            /\ UNCHANGED <<doc, writes, inbox, clientVars, isPlayerReady, adapterVars>>
       ELSE /\ CanWrite(subs, inbox)
            /\ Store(AddMember(doc, c), subs, inbox)
            /\ Connecting(c)
            /\ lastOp' = [op |-> "joinExistingRoom", who |-> c,
                          arg |-> Undefined, upd |-> NoWrite, ok |-> TRUE,
                          thrown |-> FALSE]
            /\ UNCHANGED <<isPlayerReady, adapterVars>>

\* joinRoom rejects with a store error: the catch logs it and false is returned
joinExistingRoomRejected(c) ==
  /\ ~isConnected(c)
  /\ lastOp' = [op |-> "joinExistingRoom", who |-> c, arg |-> Undefined,
                upd |-> NoWrite, ok |-> FALSE, thrown |-> FALSE]
  /\ UNCHANGED <<doc, writes, inbox, clientVars, isPlayerReady, adapterVars>>

\* the setTimeout callback of create/join: subscribeToRoom, then the handle is
\* stored in window.roomUnsubscribe; the store pushes the current document
subscribeTimer(c) ==
  /\ timers[c] > 0
  /\ Len(inbox[c]) < MaxInbox
  /\ timers' = [timers EXCEPT ![c] = @ - 1]
  /\ subCount' = [subCount EXCEPT ![c] = @ + 1]
  /\ subs' = [subs EXCEPT ![c] = @ \cup {subCount[c] + 1}]
  /\ winUnsub' = [winUnsub EXCEPT ![c] = subCount[c] + 1]
  /\ inbox' = [inbox EXCEPT ![c] = Append(@, doc)]
  /\ lastOp' = Idle
  /\ UNCHANGED <<doc, writes, storedId, currentUser, roomState, isPlayerReady, adapterVars>>

\* subscription callback that keeps the first document it was given
onRoomChangeKeepsFirst(c) ==
  /\ inbox[c] # <<>>
  /\ inbox' = [inbox EXCEPT ![c] = Tail(@)]
  /\ IF Head(inbox[c]) # Null
       THEN /\ roomState' = [roomState EXCEPT
                               ![c] = IF @ = Null THEN Head(inbox[c]) ELSE @]
            /\ UNCHANGED currentUser
       ELSE /\ roomState' = [roomState EXCEPT ![c] = Null]
            /\ currentUser' = [currentUser EXCEPT ![c] = Null]
  /\ lastOp' = Idle
  /\ UNCHANGED <<doc, writes, storedId, timers, subs, subCount, winUnsub,
                 isPlayerReady, adapterVars>>

\* the subscription callback, run on the oldest queued push
onRoomChange(c) ==
  /\ inbox[c] # <<>>
  /\ inbox' = [inbox EXCEPT ![c] = Tail(@)]
  /\ IF Head(inbox[c]) # Null
       THEN /\ roomState' = [roomState EXCEPT ![c] = Head(inbox[c])]
            /\ UNCHANGED currentUser
       ELSE /\ roomState' = [roomState EXCEPT ![c] = Null]
            /\ currentUser' = [currentUser EXCEPT ![c] = Null]
  /\ lastOp' = Idle
  /\ UNCHANGED <<doc, writes, storedId, timers, subs, subCount, winUnsub,
                 isPlayerReady, adapterVars>>

\* ------------------------------------------------------------------ leave
Released(c) ==
  [subs EXCEPT ![c] = IF winUnsub[c] # NoHandle THEN @ \ {winUnsub[c]} ELSE @]

leaveCurrentRoom(c) ==
  /\ roomState[c] # Null /\ currentUser[c] # Null
  /\ LET s == Released(c)
         box == [inbox EXCEPT ![c] = IF s[c] = {} THEN <<>> ELSE @]
     IN /\ subs' = s
        /\ IF doc # Null
             THEN /\ CanWrite(s, box)
                  /\ Store(RemoveMember(doc, currentUser[c].id), s, box)
             ELSE /\ inbox' = box
                  /\ UNCHANGED <<doc, writes>>
  /\ winUnsub' = [winUnsub EXCEPT ![c] = NoHandle]
  /\ roomState' = [roomState EXCEPT ![c] = Null]
  /\ currentUser' = [currentUser EXCEPT ![c] = Null]
  /\ lastOp' = [op |-> "leaveCurrentRoom", who |-> c, arg |-> Undefined,
                upd |-> NoWrite]
  /\ UNCHANGED <<storedId, timers, subCount, isPlayerReady, adapterVars>>

\* the store drops a room document that has no member left
gatewayDelete ==
  /\ doc # Null
  /\ Members(doc) = {}
  /\ CanWrite(subs, inbox)
  /\ Store(Null, subs, inbox)
  /\ lastOp' = Idle
  /\ UNCHANGED <<clientVars, isPlayerReady, adapterVars>>

\* ----------------------------------------------------------- host intents
\* each intent, in the render r it was created in, yields the partial document
\* it hands to updateRoomState, or NoWrite when it returns early
\* playTrack without the reset of the position
playTrackUpdKeepsTime(r, track) ==
  IF ~Gate(r) THEN NoWrite
  ELSE [currentTrack |-> track, isPlaying |-> TRUE]

playTrackUpd(r, track) ==
  IF ~Gate(r) THEN NoWrite
  ELSE [currentTrack |-> track, isPlaying |-> TRUE, currentTime |-> 0]

pauseTrackUpd(r) ==
  IF ~Gate(r) THEN NoWrite
  ELSE [isPlaying |-> FALSE, currentTime |-> r.roomState.currentTime]

\* resumeTrack that also sets the position back to the start
resumeTrackUpdResetsTime(r) ==
  IF ~Gate(r) THEN NoWrite
  ELSE [isPlaying |-> TRUE, currentTime |-> 0]

resumeTrackUpd(r) ==
  IF ~Gate(r) THEN NoWrite
  ELSE [isPlaying |-> TRUE]

addToPlaylistUpd(r, track) ==
  IF ~Gate(r) THEN NoWrite
  ELSE [playlist |-> Append(r.roomState.playlist, track)]

\* removeFromPlaylist that also clears the current track when it is removed
removeFromPlaylistUpdClears(r, trackId) ==
  IF ~Gate(r) THEN NoWrite
  ELSE IF r.roomState.currentTrack = trackId
    THEN [playlist |-> SelectSeq(r.roomState.playlist, LAMBDA t : t # trackId),
          currentTrack |-> NoTrack]
    ELSE [playlist |-> SelectSeq(r.roomState.playlist, LAMBDA t : t # trackId)]

\* removeFromPlaylist that drops the first entry with that id only
removeFromPlaylistUpdFirstOnly(r, trackId) ==
  IF ~Gate(r) THEN NoWrite
  ELSE LET pl == r.roomState.playlist
           hits == {i \in 1..Len(pl) : pl[i] = trackId}
       IN IF hits = {} THEN [playlist |-> pl]
          ELSE LET k == CHOOSE i \in hits : \A j \in hits : i <= j
               IN [playlist |-> SubSeq(pl, 1, k - 1) \o SubSeq(pl, k + 1, Len(pl))]

removeFromPlaylistUpd(r, trackId) ==
  IF ~Gate(r) THEN NoWrite
  ELSE [playlist |-> SelectSeq(r.roomState.playlist, LAMBDA t : t # trackId)]

transferHostUpd(r, newHostId) ==
  IF ~Gate(r) THEN NoWrite
  ELSE [hostId |-> newHostId]

updateCurrentTimeUpd(r, time) ==
  IF ~Gate(r) THEN NoWrite
  ELSE [currentTime |-> time]

setVolumeUpd(r, volume) ==
  IF ~Gate(r) THEN NoWrite
  ELSE [volume |-> volume]

\* the awaited updateRoomState call of an intent; an update of a document that
\* no longer exists fails and is caught
Issue(partial) ==
  IF partial = NoWrite \/ doc = Null
    THEN UNCHANGED <<doc, writes, inbox>>
    ELSE /\ CanWrite(subs, inbox)
         /\ Store(updateRoomState(doc, partial), subs, inbox)

Intent(c, name, arg, partial) ==
  /\ Issue(partial)
  /\ lastOp' = [op |-> name, who |-> c, arg |-> arg, upd |-> partial]
  /\ UNCHANGED <<clientVars, isPlayerReady, adapterVars>>

playTrack(c, track) == Intent(c, "playTrack", track, playTrackUpd(Render(c), track))

pauseTrack(c) == Intent(c, "pauseTrack", Undefined, pauseTrackUpd(Render(c)))

resumeTrack(c) == Intent(c, "resumeTrack", Undefined, resumeTrackUpd(Render(c)))

addToPlaylist(c, track) ==
  /\ isConnected(c) => Len(roomState[c].playlist) < MaxPlaylist
  /\ Intent(c, "addToPlaylist", track, addToPlaylistUpd(Render(c), track))

removeFromPlaylist(c, trackId) ==
  Intent(c, "removeFromPlaylist", trackId, removeFromPlaylistUpd(Render(c), trackId))

\* the ids the Make Host buttons of the member list offer to a host; a caller
\* the gate rejects may pass any id
TransferTargets(c) ==
  IF Gate(Render(c))
    THEN Members(roomState[c]) \ {roomState[c].hostId}
    ELSE Clients

transferHost(c, newHostId) ==
  Intent(c, "transferHost", newHostId, transferHostUpd(Render(c), newHostId))

updateCurrentTime(c, time) ==
  Intent(c, "updateCurrentTime", time, updateCurrentTimeUpd(Render(c), time))

setVolume(c, volume) == Intent(c, "setVolume", volume, setVolumeUpd(Render(c), volume))

HostIntents ==
  {"playTrack", "pauseTrack", "resumeTrack", "addToPlaylist",
   "removeFromPlaylist", "transferHost", "updateCurrentTime", "setVolume"}

\* the partial document intent name hands to updateRoomState in render r
IntentUpd(r, name, arg) ==
  CASE name = "playTrack" -> playTrackUpd(r, arg)
    [] name = "pauseTrack" -> pauseTrackUpd(r)
    [] name = "resumeTrack" -> resumeTrackUpd(r)
    [] name = "addToPlaylist" -> addToPlaylistUpd(r, arg)
    [] name = "removeFromPlaylist" -> removeFromPlaylistUpd(r, arg)
    [] name = "transferHost" -> transferHostUpd(r, arg)
    [] name = "updateCurrentTime" -> updateCurrentTimeUpd(r, arg)
    [] name = "setVolume" -> setVolumeUpd(r, arg)

IntentArgs(name) ==
  CASE name \in {"playTrack", "addToPlaylist", "removeFromPlaylist"} -> Tracks
    [] name = "transferHost" -> Clients
    [] name = "updateCurrentTime" -> Positions
    [] name = "setVolume" -> Volumes
    [] OTHER -> {Undefined}

\* an intent whose catch throws the gateway error on to its caller
intentRejectedRethrows(c, name, arg) ==
  /\ IntentUpd(Render(c), name, arg) # NoWrite
  /\ lastOp' = [op |-> name, who |-> c, arg |-> arg,
                upd |-> IntentUpd(Render(c), name, arg),
                rejected |-> TRUE, thrown |-> TRUE]
  /\ UNCHANGED <<doc, writes, inbox, clientVars, isPlayerReady, adapterVars>>

\* an intent that passed its gate and whose updateRoomState call the gateway
\* rejects: the catch logs the error, nothing is set
intentRejected(c, name, arg) ==
  /\ IntentUpd(Render(c), name, arg) # NoWrite
  /\ lastOp' = [op |-> name, who |-> c, arg |-> arg,
                upd |-> IntentUpd(Render(c), name, arg),
                rejected |-> TRUE, thrown |-> FALSE]
  /\ UNCHANGED <<doc, writes, inbox, clientVars, isPlayerReady, adapterVars>>

\* ------------------------------------------------------------ MusicPlayer
\* onReady of the adapter
playerOnReady(c) ==
  /\ ~isPlayerReady[c]
  /\ isPlayerReady' = [isPlayerReady EXCEPT ![c] = TRUE]
  /\ lastOp' = Idle
  /\ UNCHANGED <<doc, writes, inbox, clientVars, adapterVars>>

\* ---------------------------------------------- creation of the player
\* the effect at mount: with window.YT undefined it inserts the API script and
\* waits for onYouTubeIframeAPIReady ("loading"); otherwise (YT defined, with
\* or without YT.Player: "ready" or "partial") it schedules initializePlayer
MountEffect(api, element) ==
  [retryCount |-> 0, timers |-> IF api = "loading" THEN 0 ELSE 1,
   players |-> 0, ref |-> FALSE, status |-> "Loading YouTube API...",
   api |-> api, element |-> element, mounted |-> TRUE]

\* a retry counter that is never advanced
retryCountStuck(n) == n

\* retryCount++
retryCountNext(n) == n + 1

\* what the initializer steps leave alone
roomAndAdapter ==
  <<doc, writes, inbox, clientVars, playerRef, position, mobileAudioEnabled,
    isMobile, syncDeps, timeouts>>

\* one call of initializePlayer from a timeout: it returns if the player
\* exists, gives up past maxRetries, schedules itself again while the element
\* or YT.Player is missing, and otherwise creates the player, which may throw
initializePlayer(c) ==
  LET i == initializer[c]
      n == retryCountNext(i.retryCount)
  IN /\ i.timers > 0
     /\ IF i.ref
          THEN initializer' = [initializer EXCEPT ![c].timers = @ - 1]
        ELSE IF n > maxRetries
          THEN initializer' = [initializer EXCEPT
                 ![c].retryCount = n, ![c].timers = @ - 1,
                 ![c].status = "Failed to initialize player"]
        ELSE IF ~i.element \/ i.api # "ready"
          THEN initializer' = [initializer EXCEPT ![c].retryCount = n]
        ELSE \E thrown \in BOOLEAN :
               initializer' = [initializer EXCEPT
                 ![c].retryCount = n, ![c].timers = @ - 1,
                 ![c].ref = ~thrown,
                 ![c].players = IF thrown THEN @ ELSE @ + 1,
                 ![c].status = IF thrown THEN "Error creating player"
                               ELSE "Creating YouTube player..."]
     /\ lastOp' = Idle
     /\ UNCHANGED <<roomAndAdapter, isPlayerReady>>

\* the API script finishes loading: YT.Player is defined, and the callback the
\* effect installed, if it did, schedules initializePlayer
apiReady(c) ==
  /\ initializer[c].api # "ready"
  /\ initializer' = [initializer EXCEPT
       ![c].api = "ready",
       ![c].timers = IF initializer[c].api = "loading" THEN @ + 1 ELSE @]
  /\ lastOp' = Idle
  /\ UNCHANGED <<roomAndAdapter, isPlayerReady>>

\* the element with id youtube-player gets into the document
elementAppears(c) ==
  /\ ~initializer[c].element
  /\ initializer' = [initializer EXCEPT ![c].element = TRUE]
  /\ lastOp' = Idle
  /\ UNCHANGED <<roomAndAdapter, isPlayerReady>>

\* cleanup of the effect when the view unmounts: the player is destroyed, the
\* pending timeout is not cleared
unmountCleanup(c) ==
  /\ initializer[c].mounted
  /\ initializer' = [initializer EXCEPT ![c].mounted = FALSE, ![c].ref = FALSE]
  /\ isPlayerReady' = [isPlayerReady EXCEPT ![c] = FALSE]
  /\ lastOp' = Idle
  /\ UNCHANGED roomAndAdapter

\* one tick of the 1 s polling interval in render r with live position t: the
\* host branch publishes when floor(t) % 3 = 0, the other branch only displays
publishUpd(r, t) ==
  IF isHostIn(r) /\ t % PublishEvery = 0
    THEN updateCurrentTimeUpd(r, t)
    ELSE NoWrite

positionTick(c, t) ==
  /\ roomState[c] # Null /\ roomState[c].isPlaying
  /\ isPlayerReady[c]
  /\ Issue(publishUpd(Render(c), t))
  /\ lastOp' = [op |-> "positionTick", who |-> c, arg |-> Undefined,
                upd |-> publishUpd(Render(c), t)]
  /\ UNCHANGED <<clientVars, isPlayerReady, adapterVars>>

\* the readings of getCurrentTime() are fractions of a second: a reading h
\* stands for h / 2 seconds
TickReadings == 0..(2 * MaxPos + 1)

\* Math.floor of reading h, in seconds
Floor(h) == h \div 2

\* interval callback that tests the reading itself, without Math.floor
pollingUpdNoFloor(r, h) ==
  IF isHostIn(r) /\ h % (2 * PublishEvery) = 0
    THEN updateCurrentTimeUpd(r, h)
    ELSE NoWrite

\* the update the interval callback installed in render r issues for reading h
pollingUpd(r, h) ==
  IF isHostIn(r) /\ Floor(h) % PublishEvery = 0
    THEN updateCurrentTimeUpd(r, h)
    ELSE NoWrite

\* one tick of the polling interval with reading h: the reading is shown
\* (setLocalCurrentTime) and, in the host branch, published at the reduced
\* rate; the update is recorded, not applied
pollingTick(c, h) ==
  /\ roomState[c] # Null /\ roomState[c].isPlaying
  /\ isPlayerReady[c]
  /\ lastOp' = [op |-> "pollingTick", who |-> c, arg |-> h,
                upd |-> pollingUpd(Render(c), h), shown |-> h]
  /\ UNCHANGED <<doc, writes, inbox, clientVars, isPlayerReady, adapterVars>>

\* findIndex: 0-based position of the first entry with that id, or -1
FindIndex(playlist, id) ==
  IF \E i \in 1..Len(playlist) : playlist[i] = id
    THEN (CHOOSE i \in 1..Len(playlist) :
            /\ playlist[i] = id
            /\ \A j \in 1..(i - 1) : playlist[j] # id) - 1
    ELSE -1

NextIndex(playlist, id) == (FindIndex(playlist, id) + 1) % Len(playlist)

\* onPlayerStateChange(ENDED) as created in render r
onPlayerStateChangeEnded(r) ==
  IF ~isHostIn(r) THEN NoWrite
  ELSE IF r.roomState # Null /\ Len(r.roomState.playlist) > 1
    THEN playTrackUpd(r, r.roomState.playlist[
           NextIndex(r.roomState.playlist, r.roomState.currentTrack) + 1])
    ELSE NoWrite

\* the render whose onPlayerStateChange the adapter holds: the player is
\* created by an effect with no dependencies, so it is the first render
RegisteredRender(c) == MountRender

\* the adapter reports ENDED for the track the client has loaded
playerEnded(c) ==
  /\ isPlayerReady[c]
  /\ roomState[c] # Null /\ roomState[c].currentTrack # NoTrack
  /\ Intent(c, "ended", Undefined, onPlayerStateChangeEnded(RegisteredRender(c)))

Abs(x) == IF x < 0 THEN -x ELSE x

\* drift-sync that already seeks at a drift equal to the threshold
driftSeekAtThreshold(room, ready, pos) ==
  IF /\ room # Null
     /\ room.currentTrack # NoTrack
     /\ ready
     /\ room.currentTime > 0
     /\ Abs(pos - room.currentTime) >= DriftThreshold
    THEN room.currentTime
    ELSE NoSeek

\* the drift-sync effect on view room with live position pos: the seekTo it
\* issues, or NoSeek
driftSeek(room, ready, pos) ==
  IF /\ room # Null
     /\ room.currentTrack # NoTrack
     /\ ready
     /\ room.currentTime > 0
     /\ Abs(pos - room.currentTime) > DriftThreshold
    THEN room.currentTime
    ELSE NoSeek

driftSync(c, pos) ==
  /\ lastOp' = [op |-> "driftSync", who |-> c, arg |-> Undefined,
                upd |-> NoWrite, pos |-> pos,
                seek |-> driftSeek(roomState[c], isPlayerReady[c], pos)]
  /\ UNCHANGED <<doc, writes, inbox, clientVars, isPlayerReady, adapterVars>>

\* ------------------------------------------------- the playback adapter
\* roomState?.isPlaying and roomState?.currentTrack; undefined counts as
\* false and as no track
ViewPlaying(c) == roomState[c] # Null /\ roomState[c].isPlaying

ViewTrack(c) == IF roomState[c] = Null THEN NoTrack ELSE roomState[c].currentTrack

\* dependency list of the room-sync effect without isPlayerReady
SyncDepsWithoutReady(c) ==
  [videoId |-> ViewTrack(c), isPlaying |-> ViewPlaying(c), ready |-> FALSE]

\* the dependencies of the room-sync effect in the current render
SyncDeps(c) ==
  [videoId |-> ViewTrack(c), isPlaying |-> ViewPlaying(c),
   ready |-> isPlayerReady[c]]

SyncDue(c) == SyncDeps(c) # syncDeps[c]

\* the dependencies of the drift-sync effect in the current render
DriftDeps(c) == [videoId |-> ViewTrack(c), ready |-> isPlayerReady[c]]

\* commands to the adapter
Load(v) == [cmd |-> "load", video |-> v]

Seek(t) == [cmd |-> "seek", time |-> t]

Play == [cmd |-> "play"]

Pause == [cmd |-> "pause"]

\* the adapter after playVideo and after pauseVideo
Played(p) == [p EXCEPT !.playing = (p.videoId # NoTrack)]

Paused(p) == [p EXCEPT !.playing = FALSE]

\* initializeMobileAudio: on a mobile user agent, play unless already playing
MobileInitCmds(c) ==
  IF isMobile[c] /\ ~playerRef[c].playing THEN <<Play>> ELSE <<>>

\* same-video branch that also seeks to the declared position before playing
SameVideoCmdsSeeks(room, adapterPlaying) ==
  IF room.isPlaying /\ ~adapterPlaying THEN <<Seek(room.currentTime), Play>>
  ELSE IF ~room.isPlaying /\ adapterPlaying THEN <<Pause>>
  ELSE <<>>

\* same-video branch of the room-sync effect
SameVideoCmds(room, adapterPlaying) ==
  IF room.isPlaying /\ ~adapterPlaying THEN <<Play>>
  ELSE IF ~room.isPlaying /\ adapterPlaying THEN <<Pause>>
  ELSE <<>>

\* commands of the 1000 ms timeout armed with the values cap of its effect run
LoadedCmds(cap) ==
  (IF cap.currentTime > 0 THEN <<Seek(cap.currentTime)>> ELSE <<>>)
    \o (IF cap.isPlaying THEN <<Play>> ELSE <<>>)

\* a 100 ms timeout of the enable-audio code: it pauses unless the isPlaying
\* its callback closed over was true
PauseTimer(origin, c) == [by |-> origin, playing |-> ViewPlaying(c)]

\* the drift-sync effect runs in the flush of effects that follows a render
\* in which the track or the readiness differs from the last flush
DriftDue(c) ==
  DriftDeps(c) # [videoId |-> syncDeps[c].videoId, ready |-> syncDeps[c].ready]

\* the live position after the room-sync effect: loadVideoById starts the new
\* video at 0
LoadedPosition(c) ==
  IF /\ ViewTrack(c) # NoTrack /\ isPlayerReady[c]
     /\ playerRef[c].videoId # ViewTrack(c)
    THEN 0 ELSE position[c]

\* the live position after the flush: the drift-sync effect, when it runs,
\* compares the position with the declared one and may seek
FlushedPosition(c) ==
  IF DriftDue(c)
       /\ driftSeek(roomState[c], isPlayerReady[c], LoadedPosition(c)) # NoSeek
    THEN driftSeek(roomState[c], isPlayerReady[c], LoadedPosition(c))
    ELSE LoadedPosition(c)

\* the room-sync effect, run after a render that changed its dependencies; the
\* drift-sync effect follows it in the same flush when it is due
roomSyncEffect(c) ==
  /\ SyncDue(c)
  /\ syncDeps' = [syncDeps EXCEPT ![c] = SyncDeps(c)]
  /\ position' = [position EXCEPT ![c] = FlushedPosition(c)]
  /\ IF ViewTrack(c) # NoTrack /\ isPlayerReady[c]
       THEN IF playerRef[c].videoId # ViewTrack(c)
         THEN /\ Len(timeouts[c].sync) < MaxSyncTimers
              /\ \E autoplay \in BOOLEAN :
                   playerRef' = [playerRef EXCEPT
                      ![c] = [videoId |-> ViewTrack(c), playing |-> autoplay]]
              /\ timeouts' = [timeouts EXCEPT ![c].sync = Append(@,
                     [track |-> ViewTrack(c),
                      isPlaying |-> roomState[c].isPlaying,
                      currentTime |-> roomState[c].currentTime,
                      older |-> Len(timeouts[c].pause)])]
              /\ UNCHANGED mobileAudioEnabled
              /\ lastOp' = [op |-> "roomSync", who |-> c, arg |-> Undefined,
                            upd |-> NoWrite, branch |-> "load",
                            init |-> <<>>, cmds |-> <<Load(ViewTrack(c))>>]
         ELSE LET cmds == SameVideoCmds(roomState[c], playerRef[c].playing)
                  init == IF Play \in {cmds[i] : i \in 1..Len(cmds)}
                            THEN MobileInitCmds(c) ELSE <<>>
              IN /\ init # <<>> => Len(timeouts[c].pause) < MaxPauseTimers
                 /\ playerRef' = [playerRef EXCEPT ![c] =
                       IF cmds = <<>> THEN @
                       ELSE IF cmds = <<Pause>> THEN Paused(@) ELSE Played(@)]
                 /\ timeouts' = [timeouts EXCEPT ![c].pause =
                       IF init # <<>> THEN Append(@, PauseTimer("init", c))
                       ELSE @]
                 /\ mobileAudioEnabled' = [mobileAudioEnabled EXCEPT ![c] =
                       IF Play \in {cmds[i] : i \in 1..Len(cmds)} /\ isMobile[c]
                         THEN TRUE ELSE @]
                 /\ lastOp' = [op |-> "roomSync", who |-> c, arg |-> Undefined,
                               upd |-> NoWrite, branch |-> "same",
                               init |-> init, cmds |-> cmds,
                               wasPlaying |-> playerRef[c].playing]
       ELSE /\ lastOp' = [op |-> "roomSync", who |-> c, arg |-> Undefined,
                          upd |-> NoWrite, branch |-> "none",
                          init |-> <<>>, cmds |-> <<>>]
            /\ UNCHANGED <<playerRef, timeouts, mobileAudioEnabled>>
  /\ UNCHANGED <<doc, writes, inbox, clientVars, isPlayerReady, isMobile,
                 initializer>>

\* the oldest 1000 ms timeout of the room-sync effect fires, after the 100 ms
\* timeouts that were pending when it was armed (older): mobile audio is
\* initialized, then the captured position is sought and the captured play
\* flag applied
syncTimer(c) ==
  /\ timeouts[c].sync # <<>>
  /\ Head(timeouts[c].sync).older = 0
  /\ LET cap == Head(timeouts[c].sync)
         init == MobileInitCmds(c)
     IN /\ init # <<>> => Len(timeouts[c].pause) < MaxPauseTimers
        /\ playerRef' = [playerRef EXCEPT ![c] =
              IF init # <<>> \/ cap.isPlaying THEN Played(@) ELSE @]
        /\ timeouts' = [timeouts EXCEPT
              ![c].sync = Tail(@),
              ![c].pause = IF init # <<>>
                             THEN Append(@, [by |-> "init",
                                             playing |-> cap.isPlaying])
                             ELSE @]
        /\ mobileAudioEnabled' = [mobileAudioEnabled EXCEPT ![c] =
              IF isMobile[c] THEN TRUE ELSE @]
        /\ position' = [position EXCEPT ![c] =
              IF cap.currentTime > 0 THEN cap.currentTime ELSE @]
        /\ lastOp' = [op |-> "syncTimer", who |-> c, arg |-> Undefined,
                      upd |-> NoWrite, cap |-> cap, init |-> init,
                      cmds |-> LoadedCmds(cap),
                      loaded |-> playerRef[c].videoId]
  /\ UNCHANGED <<doc, writes, inbox, clientVars, isPlayerReady, isMobile,
                 initializer, syncDeps>>

\* the enable-audio button: play now, pause 100 ms later unless the room was
\* playing in the render of the call; the button is shown on a mobile user
\* agent until mobileAudioEnabled is rendered, so a second tap follows the
\* first at once
enableMobileAudio(c) ==
  /\ isPlayerReady[c]
  /\ isMobile[c]
  /\ \/ ~mobileAudioEnabled[c]
     \/ lastOp.op = "enableMobileAudio" /\ lastOp.who = c
  /\ Len(timeouts[c].pause) < MaxPauseTimers
  /\ playerRef' = [playerRef EXCEPT ![c] = Played(@)]
  /\ timeouts' = [timeouts EXCEPT
        ![c].pause = Append(@, PauseTimer("enable", c))]
  /\ mobileAudioEnabled' = [mobileAudioEnabled EXCEPT ![c] = TRUE]
  /\ lastOp' = [op |-> "enableMobileAudio", who |-> c, arg |-> Undefined,
                upd |-> NoWrite, init |-> <<>>, cmds |-> <<Play>>]
  /\ UNCHANGED <<doc, writes, inbox, clientVars, isPlayerReady, isMobile,
                 initializer, syncDeps, position>>

\* the oldest 100 ms timeout fires
pauseTimer(c) ==
  /\ timeouts[c].pause # <<>>
  /\ LET t == Head(timeouts[c].pause)
     IN /\ playerRef' = [playerRef EXCEPT ![c] =
              IF t.playing THEN @ ELSE Paused(@)]
        /\ lastOp' = [op |-> "pauseTimer", who |-> c, arg |-> Undefined,
                      upd |-> NoWrite, by |-> t.by, init |-> <<>>,
                      cmds |-> IF t.playing THEN <<>> ELSE <<Pause>>]
  /\ timeouts' = [timeouts EXCEPT
        ![c].pause = Tail(@),
        ![c].sync = [i \in 1..Len(@) |->
                       [@[i] EXCEPT !.older = IF @ > 0 THEN @ - 1 ELSE 0]]]
  /\ UNCHANGED <<doc, writes, inbox, clientVars, isPlayerReady, isMobile,
                 initializer, syncDeps, mobileAudioEnabled, position>>

\* the awaited updateRoomState calls of a handler that issues its intents one
\* after the other: every update is applied to the result of the one before
\* and pushed on its own
Applied(d, upds) ==
  IF Len(upds) = 0 THEN <<>>
  ELSE IF Len(upds) = 1 THEN <<updateRoomState(d, upds[1])>>
  ELSE <<updateRoomState(d, upds[1]),
         updateRoomState(updateRoomState(d, upds[1]), upds[2])>>

IssueAll(upds) ==
  IF upds = <<>> \/ doc = Null
    THEN UNCHANGED <<doc, writes, inbox>>
    ELSE /\ writes + Len(upds) <= MaxWrites
         /\ \A c \in Clients :
              Listening(subs, c) => Len(inbox[c]) + Len(upds) <= MaxInbox
         /\ doc' = Applied(doc, upds)[Len(upds)]
         /\ writes' = writes + Len(upds)
         /\ inbox' = [c \in Clients |->
                        IF Listening(subs, c)
                          THEN inbox[c] \o Applied(doc, upds) ELSE inbox[c]]

\* handleTrackSelect that plays the track whether the adapter is ready or not
trackSelectPlaysUnready(r, ready) == isHostIn(r)

\* whether handleTrackSelect, created in render r, goes on to playTrack
trackSelectPlays(r, ready) == isHostIn(r) /\ ready

\* a click on a search result: addToPlaylist, then playTrack if the client is
\* host and its adapter is ready; both intents are those of the render of the
\* click
handleTrackSelect(c, track) ==
  LET r == Render(c)
      add == addToPlaylistUpd(r, track)
      play == IF trackSelectPlays(r, isPlayerReady[c])
                THEN playTrackUpd(r, track) ELSE NoWrite
  IN /\ isConnected(c) => Len(roomState[c].playlist) < MaxPlaylist
     /\ IssueAll(SelectSeq(<<add, play>>, LAMBDA u : u # NoWrite))
     /\ lastOp' = [op |-> "handleTrackSelect", who |-> c, arg |-> track,
                   upd |-> add, play |-> play]
     /\ UNCHANGED <<clientVars, isPlayerReady, adapterVars>>

\* the progress bar of PlayerControls, rendered for a host whose view has a
\* current track: the adapter seeks and the position is declared
handleProgressChange(c, time) ==
  /\ ViewTrack(c) # NoTrack
  /\ isHost(c)
  /\ isPlayerReady[c]
  /\ position' = [position EXCEPT ![c] = time]
  /\ Issue(updateCurrentTimeUpd(Render(c), time))
  /\ lastOp' = [op |-> "handleProgressChange", who |-> c, arg |-> time,
                upd |-> updateCurrentTimeUpd(Render(c), time),
                init |-> <<>>, cmds |-> <<Seek(time)>>]
  /\ UNCHANGED <<clientVars, isPlayerReady, playerRef, mobileAudioEnabled,
                 isMobile, syncDeps, timeouts, initializer>>

\* the remove button of the playlist in PlayerControls: rendered in a view
\* that has a current track, for a host, on every playlist entry but the
\* view's current track
handleRemoveTrack(c, trackId) ==
  /\ ViewTrack(c) # NoTrack
  /\ isHost(c)
  /\ \E i \in 1..Len(roomState[c].playlist) : roomState[c].playlist[i] = trackId
  /\ roomState[c].currentTrack # trackId
  /\ removeFromPlaylist(c, trackId)

\* ------------------------------------------------------------------- Next
\* Host controls (search results, play/pause, remove, Make Host, progress bar)
\* are rendered only in a render that passes the gate; the volume slider is
\* rendered for every connected client.
\* a run lets one client arm at most max subscribe timers
CanSubscribe(c, max) == subCount[c] + timers[c] < max

Next ==
  \/ \E c \in Founders : CanSubscribe(c, MaxSubs) /\ createNewRoom(c)
  \/ \E c \in Clients :
       (doc # Null => CanSubscribe(c, MaxSubs)) /\ joinExistingRoom(c)
  \/ \E c \in Clients : subscribeTimer(c)
  \/ \E c \in Clients : onRoomChange(c)
  \/ \E c \in Clients : leaveCurrentRoom(c)
  \/ gatewayDelete
  \/ \E c \in Clients, t \in Tracks : Gate(Render(c)) /\ playTrack(c, t)
  \/ \E c \in Clients : Gate(Render(c)) /\ pauseTrack(c)
  \/ \E c \in Clients : Gate(Render(c)) /\ resumeTrack(c)
  \/ \E c \in Clients, t \in Tracks : Gate(Render(c)) /\ addToPlaylist(c, t)
  \/ \E c \in Clients, t \in Tracks : Gate(Render(c)) /\ removeFromPlaylist(c, t)
  \/ \E c \in Clients : \E n \in TransferTargets(c) :
       Gate(Render(c)) /\ transferHost(c, n)
  \/ \E c \in Clients, v \in Volumes : isConnected(c) /\ setVolume(c, v)
  \/ \E c \in Clients : playerOnReady(c)
  \/ \E c \in Clients, t \in Positions : positionTick(c, t)
  \/ \E c \in Clients : playerEnded(c)

Spec == Init /\ [][Next]_vars

\* ------------------------------------------------ the session life cycle
\* create, join, the subscribe timer, pushes and leave alone, with a client
\* that may create or join again while its first subscription is being set up,
\* and with a gateway that may reject a create or a join
NextSession ==
  \/ \E c \in Founders : CanSubscribe(c, MaxSessionSubs) /\ createNewRoom(c)
  \/ \E c \in Founders : createNewRoomRejected(c)
  \/ \E c \in Clients :
       (doc # Null => CanSubscribe(c, MaxSessionSubs)) /\ joinExistingRoom(c)
  \/ \E c \in Clients : joinExistingRoomRejected(c)
  \/ \E c \in Clients : subscribeTimer(c)
  \/ \E c \in Clients : onRoomChange(c)
  \/ \E c \in Clients : leaveCurrentRoom(c)
  \/ gatewayDelete

SpecSession == Init /\ [][NextSession]_vars

\* ------------------------------------------------ a room with two members
\* alice hosts a room that bob has joined; both are subscribed and hold the
\* current document, which ranges over the tracks and the play flag; the run
\* counts its own writes
PairRoom(track, playing) ==
  [AddMember(InitialRoom("alice"), "bob") EXCEPT
     !.playlist = IF track = NoTrack THEN <<>> ELSE <<track>>,
     !.currentTrack = track, !.isPlaying = playing]

InitPair ==
  /\ \E track \in Tracks \cup {NoTrack}, playing \in BOOLEAN :
       /\ doc = PairRoom(track, playing)
       /\ roomState = [c \in Clients |-> PairRoom(track, playing)]
  /\ writes = 0
  /\ storedId = [c \in Clients |-> c]
  /\ currentUser = [c \in Clients |-> [id |-> c, name |-> NameOf(c)]]
  /\ timers = [c \in Clients |-> 0]
  /\ subs = [c \in Clients |-> {1}]
  /\ subCount = [c \in Clients |-> 1]
  /\ winUnsub = [c \in Clients |-> 1]
  /\ inbox = [c \in Clients |-> <<>>]
  /\ isPlayerReady = [c \in Clients |-> FALSE]
  /\ AdapterAtMount
  /\ isMobile = [c \in Clients |-> FALSE]
  /\ lastOp = Idle

NextPair ==
  \/ \E c \in Clients : onRoomChange(c)
  \/ \E c \in Clients : playerOnReady(c)
  \/ \E c \in Clients : Gate(Render(c)) /\ pauseTrack(c)
  \/ \E c \in Clients : Gate(Render(c)) /\ resumeTrack(c)
  \/ \E c \in Clients : \E n \in TransferTargets(c) :
       Gate(Render(c)) /\ transferHost(c, n)
  \/ \E c \in Clients, t \in Positions : positionTick(c, t)

SpecPair == InitPair /\ [][NextPair]_vars

\* the same room with a gateway that may reject the update of an intent
NextReject ==
  \/ \E c \in Clients : onRoomChange(c)
  \/ \E c \in Clients : \E n \in TransferTargets(c) :
       Gate(Render(c)) /\ transferHost(c, n)
  \/ \E c \in Clients, name \in HostIntents : \E arg \in IntentArgs(name) :
       intentRejected(c, name, arg)

SpecReject == InitPair /\ [][NextReject]_vars

\* the same room with members that may leave, and a store that never
\* postpones the delivery of a push for ever
NextBroadcast ==
  \/ \E c \in Clients : onRoomChange(c)
  \/ \E c \in Clients : Gate(Render(c)) /\ pauseTrack(c)
  \/ \E c \in Clients : Gate(Render(c)) /\ resumeTrack(c)
  \/ \E c \in Clients : \E n \in TransferTargets(c) :
       Gate(Render(c)) /\ transferHost(c, n)
  \/ \E c \in Clients : leaveCurrentRoom(c)
  \/ gatewayDelete

SpecBroadcast ==
  InitPair /\ [][NextBroadcast]_vars /\ \A c \in Clients : WF_vars(onRoomChange(c))

\* the same room with the readings of the polling interval at half seconds
NextTick ==
  \/ \E c \in Clients : onRoomChange(c)
  \/ \E c \in Clients : playerOnReady(c)
  \/ \E c \in Clients : \E n \in TransferTargets(c) :
       Gate(Render(c)) /\ transferHost(c, n)
  \/ \E c \in Clients, h \in TickReadings : pollingTick(c, h)

SpecTick == InitPair /\ [][NextTick]_vars

\* ------------------------------------------------ the adapter of a client
\* alice hosts a room she created and is subscribed to and holds the current
\* document; her MusicPlayer has just mounted, on a mobile user agent or not;
\* she plays, pauses and resumes, her polling tick publishes positions, and
\* every write comes back to her as a push while the timeouts of earlier
\* effect runs may still be pending
Listeners == {"alice"}

AdapterRoom(track, playing, time) ==
  [InitialRoom("alice") EXCEPT
     !.playlist = IF track = NoTrack THEN <<>> ELSE <<track>>,
     !.currentTrack = track, !.isPlaying = playing, !.currentTime = time]

InitAdapter ==
  /\ \E track \in Tracks \cup {NoTrack}, playing \in BOOLEAN,
        time \in {0, PublishEvery} :
       /\ track = NoTrack => ~playing /\ time = 0
       /\ doc = AdapterRoom(track, playing, time)
       /\ roomState = [c \in Clients |->
                         IF c \in Listeners
                           THEN AdapterRoom(track, playing, time) ELSE Null]
  /\ writes = 0
  /\ storedId = [c \in Clients |-> IF c \in Listeners THEN c ELSE Undefined]
  /\ currentUser = [c \in Clients |->
                      IF c \in Listeners THEN [id |-> c, name |-> NameOf(c)]
                      ELSE Null]
  /\ timers = [c \in Clients |-> 0]
  /\ subs = [c \in Clients |-> IF c \in Listeners THEN {1} ELSE {}]
  /\ subCount = [c \in Clients |-> IF c \in Listeners THEN 1 ELSE 0]
  /\ winUnsub = [c \in Clients |-> IF c \in Listeners THEN 1 ELSE NoHandle]
  /\ inbox = [c \in Clients |-> <<>>]
  /\ isPlayerReady = [c \in Clients |-> FALSE]
  /\ AdapterAtMount
  /\ isMobile \in [Clients -> BOOLEAN]
  /\ \A c \in Clients \ Listeners : ~isMobile[c]
  /\ lastOp = Idle

\* the user and the polling tick act on a view that is up to date: no push is
\* waiting and the room-sync effect has run
Settled(c) == inbox[c] = <<>> /\ roomState[c] = doc /\ ~SyncDue(c)

NextAdapter ==
  \/ \E c \in Listeners : onRoomChange(c)
  \/ \E c \in Listeners : playerOnReady(c)
  \/ \E c \in Listeners, t \in Tracks :
       Settled(c) /\ Gate(Render(c)) /\ playTrack(c, t)
  \/ \E c \in Listeners :
       Settled(c) /\ Gate(Render(c)) /\ ViewTrack(c) # NoTrack /\ pauseTrack(c)
  \/ \E c \in Listeners :
       Settled(c) /\ Gate(Render(c)) /\ ViewTrack(c) # NoTrack /\ resumeTrack(c)
  \/ \E c \in Listeners, t \in Positions : Settled(c) /\ positionTick(c, t)
  \/ \E c \in Listeners : roomSyncEffect(c)
  \/ \E c \in Listeners : syncTimer(c)
  \/ \E c \in Listeners : enableMobileAudio(c)
  \/ \E c \in Listeners : pauseTimer(c)

SpecAdapter == InitAdapter /\ [][NextAdapter]_vars

\* the same client selecting tracks from the search results, before and after
\* her adapter has signalled readiness
NextSelect ==
  \/ \E c \in Listeners : onRoomChange(c)
  \/ \E c \in Listeners : playerOnReady(c)
  \/ \E c \in Listeners, t \in Tracks :
       Settled(c) /\ Gate(Render(c)) /\ handleTrackSelect(c, t)
  \/ \E c \in Listeners : roomSyncEffect(c)
  \/ \E c \in Listeners : syncTimer(c)
  \/ \E c \in Listeners : pauseTimer(c)

SpecSelect == InitAdapter /\ [][NextSelect]_vars

\* the same client changing the document through the player's user interface
\* alone: search results, the remove buttons of the playlist, and the ENDED
\* event of her adapter; she may click before the push of her last write has
\* reached her
NextPlaylist ==
  \/ \E c \in Listeners : onRoomChange(c)
  \/ \E c \in Listeners : playerOnReady(c)
  \/ \E c \in Listeners, t \in Tracks :
       Gate(Render(c)) /\ handleTrackSelect(c, t)
  \/ \E c \in Listeners, t \in Tracks : handleRemoveTrack(c, t)
  \/ \E c \in Listeners : playerEnded(c)

SpecPlaylist == InitAdapter /\ [][NextPlaylist]_vars

\* ------------------------------------------------ seeking within a track
\* alice hosts a room that bob has joined; her adapter has the current track
\* loaded at the declared position, bob's MusicPlayer has just mounted; alice
\* moves the progress bar, her polling tick publishes her position; pushes,
\* effects and timeouts are never postponed for ever
SeekTargets == {0, DriftThreshold + 1}

SeekRoom(track, playing, time) ==
  [PairRoom(track, playing) EXCEPT !.currentTime = time]

InitSeek ==
  /\ \E track \in Tracks, playing \in BOOLEAN, time \in SeekTargets :
       /\ doc = SeekRoom(track, playing, time)
       /\ roomState = [c \in Clients |-> SeekRoom(track, playing, time)]
       /\ playerRef = [c \in Clients |->
                         IF c \in Founders
                           THEN [videoId |-> track, playing |-> playing]
                           ELSE [videoId |-> NoTrack, playing |-> FALSE]]
       /\ position = [c \in Clients |-> IF c \in Founders THEN time ELSE 0]
       /\ syncDeps = [c \in Clients |->
                        IF c \in Founders
                          THEN [videoId |-> track, isPlaying |-> playing,
                                ready |-> TRUE]
                          ELSE MountDeps]
  /\ writes = 0
  /\ storedId = [c \in Clients |-> c]
  /\ currentUser = [c \in Clients |-> [id |-> c, name |-> NameOf(c)]]
  /\ timers = [c \in Clients |-> 0]
  /\ subs = [c \in Clients |-> {1}]
  /\ subCount = [c \in Clients |-> 1]
  /\ winUnsub = [c \in Clients |-> 1]
  /\ inbox = [c \in Clients |-> <<>>]
  /\ isPlayerReady = [c \in Clients |-> c \in Founders]
  /\ mobileAudioEnabled = [c \in Clients |-> FALSE]
  /\ timeouts = [c \in Clients |-> [sync |-> <<>>, pause |-> <<>>]]
  /\ initializer = [c \in Clients |-> PlayerCreated]
  /\ isMobile = [c \in Clients |-> FALSE]
  /\ lastOp = Idle

NextSeek ==
  \/ \E c \in Clients : onRoomChange(c)
  \/ \E c \in Clients : playerOnReady(c)
  \/ \E c \in Clients : roomSyncEffect(c)
  \/ \E c \in Clients : syncTimer(c)
  \/ \E c \in Clients, t \in SeekTargets : handleProgressChange(c, t)
  \/ \E c \in Clients : positionTick(c, position[c])

\* the store delivers every push, React flushes every due effect and the
\* browser fires every timeout
SeekFairness ==
  \A c \in Clients :
    /\ WF_vars(onRoomChange(c))
    /\ WF_vars(playerOnReady(c))
    /\ WF_vars(roomSyncEffect(c))
    /\ WF_vars(syncTimer(c))

SpecSeek == InitSeek /\ [][NextSeek]_vars /\ SeekFairness

\* ------------------------------------------------ creation of the player
\* alice hosts a room alone; her MusicPlayer has just mounted: the API script
\* is loading, partly loaded or loaded, the player element is there or not
InitMount ==
  /\ doc = AdapterRoom(NoTrack, FALSE, 0)
  /\ roomState = [c \in Clients |->
                    IF c \in Listeners THEN AdapterRoom(NoTrack, FALSE, 0)
                    ELSE Null]
  /\ writes = 0
  /\ storedId = [c \in Clients |-> IF c \in Listeners THEN c ELSE Undefined]
  /\ currentUser = [c \in Clients |->
                      IF c \in Listeners THEN [id |-> c, name |-> NameOf(c)]
                      ELSE Null]
  /\ timers = [c \in Clients |-> 0]
  /\ subs = [c \in Clients |-> IF c \in Listeners THEN {1} ELSE {}]
  /\ subCount = [c \in Clients |-> IF c \in Listeners THEN 1 ELSE 0]
  /\ winUnsub = [c \in Clients |-> IF c \in Listeners THEN 1 ELSE NoHandle]
  /\ inbox = [c \in Clients |-> <<>>]
  /\ isPlayerReady = [c \in Clients |-> FALSE]
  /\ playerRef = [c \in Clients |-> [videoId |-> NoTrack, playing |-> FALSE]]
  /\ position = [c \in Clients |-> 0]
  /\ mobileAudioEnabled = [c \in Clients |-> FALSE]
  /\ syncDeps = [c \in Clients |-> MountDeps]
  /\ timeouts = [c \in Clients |-> [sync |-> <<>>, pause |-> <<>>]]
  /\ \E api \in {"loading", "partial", "ready"}, element \in BOOLEAN :
       initializer = [c \in Clients |->
                        IF c \in Listeners THEN MountEffect(api, element)
                        ELSE PlayerCreated]
  /\ isMobile = [c \in Clients |-> FALSE]
  /\ lastOp = Idle

NextMount ==
  \/ \E c \in Listeners : initializePlayer(c)
  \/ \E c \in Listeners : apiReady(c)
  \/ \E c \in Listeners : elementAppears(c)
  \/ \E c \in Listeners : unmountCleanup(c)
  \/ \E c \in Listeners : initializer[c].ref /\ playerOnReady(c)

\* the browser fires every timeout
MountFairness == \A c \in Listeners : WF_vars(initializePlayer(c))

SpecMount == InitMount /\ [][NextMount]_vars /\ MountFairness

\* ------------------------------------------------ readiness of the adapter
\* alice hosts a room that bob has joined; the MusicPlayer of bob has just
\* mounted and its adapter is not ready; alice plays tracks, and the adapter of
\* bob signals readiness before or after the pushes arrive; pushes, effects
\* and timeouts are never postponed for ever
Guests == Clients \ Founders

NextReady ==
  \/ \E c \in Clients : onRoomChange(c)
  \/ \E c \in Guests : playerOnReady(c)
  \/ \E c \in Clients, t \in Tracks : Gate(Render(c)) /\ playTrack(c, t)
  \/ \E c \in Guests : roomSyncEffect(c)
  \/ \E c \in Guests : syncTimer(c)

ReadyFairness ==
  /\ \A c \in Clients : WF_vars(onRoomChange(c))
  /\ \A c \in Guests : WF_vars(roomSyncEffect(c)) /\ WF_vars(syncTimer(c))

SpecReady == InitPair /\ [][NextReady]_vars /\ ReadyFairness

\* ------------------------------------------------ the drift-sync effect
\* alice hosts a room she created and is subscribed to; the document and her
\* view of it range over the tracks and declared positions
DriftRoom(track, playing, time) ==
  [InitialRoom("alice") EXCEPT
     !.playlist = IF track = NoTrack THEN <<>> ELSE <<track>>,
     !.currentTrack = track, !.isPlaying = playing, !.currentTime = time]

InitDrift ==
  /\ \E track \in Tracks \cup {NoTrack}, playing \in BOOLEAN,
        time \in DriftPositions :
       /\ doc = DriftRoom(track, playing, time)
       /\ roomState = [c \in Clients |->
                         IF c = "alice" THEN DriftRoom(track, playing, time)
                         ELSE Null]
  /\ writes = 1
  /\ storedId = [c \in Clients |-> IF c = "alice" THEN c ELSE Undefined]
  /\ currentUser = [c \in Clients |->
                      IF c = "alice" THEN [id |-> c, name |-> NameOf(c)]
                      ELSE Null]
  /\ timers = [c \in Clients |-> 0]
  /\ subs = [c \in Clients |-> IF c = "alice" THEN {1} ELSE {}]
  /\ subCount = [c \in Clients |-> IF c = "alice" THEN 1 ELSE 0]
  /\ winUnsub = [c \in Clients |-> IF c = "alice" THEN 1 ELSE NoHandle]
  /\ inbox = [c \in Clients |-> <<>>]
  /\ isPlayerReady = [c \in Clients |-> FALSE]
  /\ AdapterAtMount
  /\ isMobile = [c \in Clients |-> FALSE]
  /\ lastOp = Idle

NextDrift ==
  \/ \E c \in Clients : playerOnReady(c)
  \/ \E c \in Clients, pos \in DriftPositions : driftSync(c, pos)

SpecDrift == InitDrift /\ [][NextDrift]_vars

\* ================================================================ claims
\* the polling tick and the ENDED handler reach the document through
\* updateCurrentTime and playTrack
IntentCalls == HostIntents \cup {"positionTick", "ended"}

\* C1: a host-only intent issued by a participant whose id is not the hostId of
\* the room document leaves the document unchanged.
C1_NonHostIntentLeavesDocument ==
  [][(/\ lastOp'.op \in IntentCalls
      /\ doc # Null
      /\ lastOp'.who # doc.hostId) => doc' = doc]_vars

\* C2: once the document's hostId has moved from the founding host to another
\* member, a pauseTrack of the founding host is rejected: it issues no update
\* and isPlaying and currentTime of the document stay as they are.
C2_PauseAfterTransferRejected ==
  [][(/\ lastOp'.op = "pauseTrack"
      /\ lastOp'.who \in Founders
      /\ doc # Null
      /\ doc.hostId # lastOp'.who)
     => /\ lastOp'.upd = NoWrite
        /\ doc' # Null
        /\ doc'.isPlaying = doc.isPlaying
        /\ doc'.currentTime = doc.currentTime]_vars

\* C3: a pauseTrack of the host leaves the document's currentTime as it was and
\* isPlaying false, and a resumeTrack of the host leaves currentTime as it was
\* and isPlaying true.
C3_PauseResumeKeepDocumentTime ==
  [][(/\ lastOp'.op \in {"pauseTrack", "resumeTrack"}
      /\ Gate(Render(lastOp'.who))
      /\ doc # Null)
     => /\ doc' # Null
        /\ doc'.currentTime = doc.currentTime
        /\ doc'.isPlaying = (lastOp'.op = "resumeTrack")]_vars

\* C4: playTrack(track) issued from a render that passes the host gate leaves
\* the document with currentTrack = track, isPlaying = true, currentTime = 0,
\* whatever the document held before.
C4_PlaySetsTrackPlayingZero ==
  (/\ lastOp.op = "playTrack"
   /\ Gate(Render(lastOp.who))
   /\ doc # Null)
  => /\ lastOp.upd # NoWrite
     /\ doc.currentTrack = lastOp.arg
     /\ doc.isPlaying = TRUE
     /\ doc.currentTime = 0

C4_Witness ==
  /\ lastOp.op = "playTrack"
  /\ Gate(Render(lastOp.who))
  /\ doc # Null
  /\ doc.currentTrack = "T2"
  /\ roomState[lastOp.who].currentTrack = "T1"
  /\ roomState[lastOp.who].currentTime > 0

\* C5: when the adapter reports ENDED on a client whose view passes the host
\* gate, Play is issued for the playlist entry after the current track
\* (cyclically) if the playlist has two entries or more, and nothing is issued
\* otherwise; on a client that is not host nothing is issued.
C5_EndedAdvancesCyclically ==
  lastOp.op = "ended" =>
    LET r == Render(lastOp.who)
        pl == r.roomState.playlist
    IN IF Gate(r) /\ Len(pl) >= 2
         THEN lastOp.upd =
                [currentTrack |-> pl[NextIndex(pl, r.roomState.currentTrack) + 1],
                 isPlaying |-> TRUE, currentTime |-> 0]
         ELSE lastOp.upd = NoWrite

\* the drift-sync effect compared a live position with a declared one: the view
\* has a current track and the adapter is ready
DriftEvaluated ==
  /\ lastOp.op = "driftSync"
  /\ roomState[lastOp.who] # Null
  /\ roomState[lastOp.who].currentTrack # NoTrack
  /\ isPlayerReady[lastOp.who]

DriftOf == Abs(lastOp.pos - roomState[lastOp.who].currentTime)

\* C6 as stated: whenever drift correction compares live position L with the
\* declared position R, a seek to R is issued if |L - R| > 5 and no seek is
\* issued if |L - R| <= 5, for every R including R = 0.
C6_SeekIffDriftAboveThreshold ==
  DriftEvaluated =>
    IF DriftOf > DriftThreshold
      THEN lastOp.seek = roomState[lastOp.who].currentTime
      ELSE lastOp.seek = NoSeek

\* C6 amended: for a declared position R > 0, a seek to R is issued if
\* |L - R| > 5 and none if |L - R| <= 5; for R = 0 no seek is issued.
C6_SeekIffDriftAboveThresholdAndDeclaredPositive ==
  DriftEvaluated =>
    IF roomState[lastOp.who].currentTime > 0 /\ DriftOf > DriftThreshold
      THEN lastOp.seek = roomState[lastOp.who].currentTime
      ELSE lastOp.seek = NoSeek

C6_Witness ==
  /\ DriftEvaluated
  /\ DriftOf = DriftThreshold + 1
  /\ lastOp.seek = roomState[lastOp.who].currentTime
  /\ lastOp.seek > 0

\* C7: right after createNewRoom on one client and a successful
\* joinExistingRoom on another, the document has exactly two members, its
\* hostId is the id stored for the creating client, and its playlist is empty.
C7_CreateThenJoin ==
  (/\ lastOp.op = "joinExistingRoom"
   /\ lastOp.ok
   /\ lastOp.who \notin Founders
   /\ writes = 2)
  => /\ doc # Null
     /\ Cardinality(Members(doc)) = 2
     /\ lastOp.who \in Members(doc)
     /\ \E a \in Founders : storedId[a] = a /\ doc.hostId = storedId[a]
     /\ doc.playlist = <<>>

C7_Witness ==
  /\ lastOp.op = "joinExistingRoom"
  /\ lastOp.ok
  /\ lastOp.who = "bob"
  /\ writes = 2
  /\ doc # Null
  /\ Members(doc) = {"alice", "bob"}

\* C8: removeFromPlaylist never changes the document's currentTrack; when the
\* host's view holds the one-entry playlist <<T1>> and T1 is the current
\* track, removing T1 leaves an empty playlist and currentTrack = T1.
C8_RemoveKeepsCurrentTrack ==
  [][(/\ lastOp'.op = "removeFromPlaylist"
      /\ doc # Null)
     => /\ doc' # Null
        /\ doc'.currentTrack = doc.currentTrack
        /\ (/\ Gate(Render(lastOp'.who))
            /\ roomState[lastOp'.who].playlist = <<lastOp'.arg>>
            /\ doc.currentTrack = lastOp'.arg)
           => /\ doc'.playlist = <<>>
              /\ doc'.currentTrack = lastOp'.arg]_vars

C8_Witness ==
  /\ lastOp.op = "removeFromPlaylist"
  /\ lastOp.arg = "T1"
  /\ lastOp.upd = [playlist |-> <<>>]
  /\ doc # Null
  /\ doc.playlist = <<>>
  /\ doc.currentTrack = "T1"

\* C9: whenever the room document has a member, its hostId is the id of one of
\* its members.
C9_HostIsMember ==
  (doc # Null /\ Members(doc) # {}) => doc.hostId \in Members(doc)

\* C10: a transferHost changes the document's hostId only to the id of a
\* participant that is in members when the write is applied.
C10_TransferOnlyToMember ==
  [][(/\ lastOp'.op = "transferHost"
      /\ doc # Null
      /\ doc' # Null
      /\ doc'.hostId # doc.hostId) => doc'.hostId \in Members(doc)]_vars

\* C11: joinExistingRoom on a room id that does not exist returns false without
\* throwing and changes nothing on the client: roomState stays null,
\* currentUser is not set, no subscribe timer is armed and no subscription is
\* registered.
C11_JoinMissingRoomStaysDisconnected ==
  [][(/\ lastOp'.op = "joinExistingRoom"
      /\ doc = Null)
     => /\ lastOp'.ok = FALSE
        /\ lastOp'.thrown = FALSE
        /\ roomState'[lastOp'.who] = Null
        /\ currentUser' = currentUser
        /\ timers' = timers
        /\ subs' = subs
        /\ doc' = Null]_vars

C11_Witness ==
  /\ lastOp.op = "joinExistingRoom"
  /\ lastOp.ok = FALSE
  /\ doc = Null
  /\ roomState[lastOp.who] = Null
  /\ currentUser[lastOp.who] = Null
  /\ timers[lastOp.who] = 0
  /\ subs[lastOp.who] = {}

\* a client is Disconnected when it has neither a room view nor a user
Disconnected(c) == roomState[c] = Null /\ currentUser[c] = Null

\* C12: a client never holds more than one live room subscription, and a
\* client that has left the room or was told that the room is gone
\* (Disconnected) holds none, in every interleaving of create, join, the
\* subscribe timer and leave.
C12_OneSubscriptionReleasedOnLeave ==
  \A c \in Clients :
    /\ Cardinality(subs[c]) <= 1
    /\ Disconnected(c) => subs[c] = {}

\* the step delivers a room-deleted push to the subscription callback of c
DeletedPushDelivered(c) ==
  /\ lastOp' = Idle
  /\ inbox[c] # <<>>
  /\ Head(inbox[c]) = Null
  /\ inbox'[c] = Tail(inbox[c])

\* C13: leaveCurrentRoom from Connected and a delivered room-deleted push both
\* leave the client Disconnected (roomState = null and currentUser = null), and
\* a Disconnected client stays Disconnected until it issues a create or a join
\* that succeeds.
C13_LeaveOrDeletedThenDisconnected ==
  [][\A c \in Clients :
       /\ (lastOp'.op = "leaveCurrentRoom" /\ lastOp'.who = c) => Disconnected(c)'
       /\ DeletedPushDelivered(c) => Disconnected(c)'
       /\ (Disconnected(c) /\ ~Disconnected(c)')
            => /\ lastOp'.op \in {"createNewRoom", "joinExistingRoom"}
               /\ lastOp'.who = c
               /\ lastOp'.ok]_vars

\* C14: the polling tick of a client writes its live position to the
\* document's currentTime only when that client is the document's host at the
\* time of the write, also around a host transfer.
C14_OnlyDocumentHostPublishesPosition ==
  [][(/\ lastOp'.op = "positionTick"
      /\ writes' # writes)
     => /\ doc # Null
        /\ doc.hostId = lastOp'.who]_vars

\* C15: when the gateway rejects the update of a host intent, the intent
\* returns without throwing and neither the room document nor roomState or
\* currentUser of any client changes.
C15_RejectedUpdateChangesNothing ==
  [][(/\ lastOp'.op \in HostIntents
      /\ "rejected" \in DOMAIN lastOp')
     => /\ lastOp'.thrown = FALSE
        /\ doc' = doc
        /\ roomState' = roomState
        /\ currentUser' = currentUser]_vars

C15_Witness ==
  /\ lastOp.op = "pauseTrack"
  /\ "rejected" \in DOMAIN lastOp
  /\ lastOp.who = "bob"
  /\ lastOp.upd # NoWrite
  /\ doc.hostId = "bob"
  /\ doc.isPlaying
  /\ roomState["bob"].isPlaying

\* C16: a createNewRoom whose createRoom fails rejects with the error, and a
\* joinExistingRoom whose joinRoom fails returns false to its caller; in both
\* cases roomState and currentUser stay as they were (null for a Disconnected
\* client), no subscribe timer is armed, no subscription is registered and the
\* document is not written.
C16_FailedCreateOrJoinStaysDisconnected ==
  [][(/\ lastOp'.op \in {"createNewRoom", "joinExistingRoom"}
      /\ lastOp'.ok = FALSE)
     => /\ lastOp'.thrown = (lastOp'.op = "createNewRoom")
        /\ roomState' = roomState
        /\ currentUser' = currentUser
        /\ timers' = timers
        /\ subs' = subs
        /\ doc' = doc]_vars

C16_Witness ==
  /\ lastOp.op = "createNewRoom"
  /\ lastOp.ok = FALSE
  /\ lastOp.thrown
  /\ Disconnected(lastOp.who)
  /\ timers[lastOp.who] = 0
  /\ subs[lastOp.who] = {}
  /\ doc = Null

\* C17: leaveCurrentRoom leaves the document's hostId as it was, also when the
\* departing client is the host and no transferHost came before: no remaining
\* member becomes host by the leave.
C17_LeaveKeepsHostId ==
  [][(/\ lastOp'.op = "leaveCurrentRoom"
      /\ doc # Null)
     => /\ doc' # Null
        /\ doc'.hostId = doc.hostId]_vars

C17_Witness ==
  /\ lastOp.op = "leaveCurrentRoom"
  /\ lastOp.who = "alice"
  /\ doc # Null
  /\ doc.hostId = "alice"
  /\ Members(doc) = {"bob"}

\* the last pending 100 ms timeout of enableMobileAudio has just fired on a
\* client whose view is the document, whose effects have run and whose adapter
\* has the document's track loaded
EnableAudioDone(c) ==
  /\ lastOp.op = "pauseTimer"
  /\ lastOp.who = c
  /\ lastOp.by = "enable"
  /\ timeouts[c].pause = <<>>
  /\ timeouts[c].sync = <<>>
  /\ Settled(c)
  /\ doc.currentTrack # NoTrack
  /\ playerRef[c].videoId = doc.currentTrack

\* C18: once the 100 ms timeouts of one or more enableMobileAudio calls have
\* fired, mobileAudioEnabled is true and the adapter is playing exactly when
\* the document's isPlaying is true, however many calls were made.
C18_EnableAudioEndsOnDocumentPlayState ==
  \A c \in Listeners :
    EnableAudioDone(c) =>
      /\ mobileAudioEnabled[c]
      /\ playerRef[c].playing = doc.isPlaying

\* C19: when the view's currentTrack differs from the track loaded in the
\* adapter, the room-sync effect issues the load of the new track and nothing
\* else; the commands that follow that load are a seek to the declared
\* currentTime iff it is greater than 0 and then a play iff the declared
\* isPlaying is true, and a seek reaches the adapter only while the track it
\* was declared for is the one loaded.
C19_LoadThenSeekThenPlay ==
  \A c \in Listeners :
    /\ (lastOp.op = "roomSync" /\ lastOp.who = c /\ lastOp.branch = "load")
         => lastOp.cmds = <<Load(playerRef[c].videoId)>>
    /\ (lastOp.op = "syncTimer" /\ lastOp.who = c)
         => /\ lastOp.cmds =
                 (IF lastOp.cap.currentTime > 0
                    THEN <<Seek(lastOp.cap.currentTime)>> ELSE <<>>)
                 \o (IF lastOp.cap.isPlaying THEN <<Play>> ELSE <<>>)
            /\ lastOp.cap.currentTime > 0 => lastOp.cap.track = lastOp.loaded

\* the step replaces the view of c by a document that differs from it in
\* currentTime only
CurrentTimeOnlyChange(c) ==
  /\ roomState[c] # Null
  /\ roomState'[c] # Null
  /\ roomState'[c] # roomState[c]
  /\ roomState'[c] = [roomState[c] EXCEPT !.currentTime = roomState'[c].currentTime]

\* C20: when the view's track is the one loaded in the adapter, the room-sync
\* effect issues play iff the view's isPlaying is true and the adapter is not
\* playing, pause iff isPlaying is false and the adapter is playing, nothing
\* otherwise, and never a seek; a push that changes currentTime only issues no
\* adapter command and makes neither the room-sync nor the drift-sync effect
\* run.
C20_SameTrackReconcilesPlayPauseOnly ==
  [][\A c \in Listeners :
       /\ (lastOp'.op = "roomSync" /\ lastOp'.who = c /\ lastOp'.branch = "same")
            => /\ lastOp'.cmds =
                    IF roomState[c].isPlaying /\ ~playerRef[c].playing
                      THEN <<Play>>
                    ELSE IF ~roomState[c].isPlaying /\ playerRef[c].playing
                      THEN <<Pause>>
                    ELSE <<>>
               /\ \A i \in 1..Len(lastOp'.init) : lastOp'.init[i] \in {Play, Pause}
               /\ playerRef'[c].videoId = playerRef[c].videoId
       /\ (CurrentTimeOnlyChange(c) /\ ~SyncDue(c))
            => /\ ~SyncDue(c)'
               /\ DriftDeps(c)' = DriftDeps(c)
               /\ playerRef' = playerRef
               /\ timeouts' = timeouts]_vars

C20_Witness ==
  /\ lastOp.op = "roomSync"
  /\ lastOp.branch = "same"
  /\ lastOp.cmds = <<Pause>>
  /\ lastOp.wasPlaying
  /\ ~playerRef[lastOp.who].playing
  /\ ~roomState[lastOp.who].isPlaying
  /\ roomState[lastOp.who].currentTime > 0

\* the adapter of c has the view's track loaded and its live position is more
\* than the threshold away from the declared position of the view
Drifted(c) ==
  /\ roomState[c] # Null
  /\ ViewTrack(c) # NoTrack
  /\ isPlayerReady[c]
  /\ playerRef[c].videoId = ViewTrack(c)
  /\ roomState[c].currentTime > 0
  /\ Abs(position[c] - roomState[c].currentTime) > DriftThreshold

\* C21: whenever the live position of a joined client's adapter is more than
\* the threshold away from the declared currentTime (a positive one), the
\* client is eventually brought back within the threshold, with no track
\* change needed.
C21_DriftEventuallyCorrected ==
  \A c \in Clients : Drifted(c) ~> ~Drifted(c)

\* C22: an addToPlaylist that passes the host gate leaves the document's
\* playlist equal to the playlist the document held before the call followed
\* by the added track, also when the push of an earlier addToPlaylist has not
\* reached the host yet.
C22_AddAppendsToDocumentPlaylist ==
  [][(/\ lastOp'.op = "addToPlaylist"
      /\ lastOp'.upd # NoWrite
      /\ doc # Null)
     => /\ doc' # Null
        /\ doc'.playlist = Append(doc.playlist, lastOp'.arg)]_vars

\* positions of the entries of playlist pl whose id differs from id
Kept(pl, id) == {i \in 1..Len(pl) : pl[i] # id}

\* C23: after a removeFromPlaylist(trackId) that passes the host gate, the
\* document's playlist holds exactly the entries of the playlist the host's
\* view held whose id differs from trackId, in their order there: every entry
\* with that id is gone, duplicates included, and an id that is not in the
\* playlist leaves its contents as they were.
C23_RemoveFiltersById ==
  (/\ lastOp.op = "removeFromPlaylist"
   /\ lastOp.upd # NoWrite
   /\ doc # Null)
  => LET pl == roomState[lastOp.who].playlist
         id == lastOp.arg
         r == doc.playlist
     IN /\ lastOp.upd = [playlist |-> r]
        /\ Len(r) = Cardinality(Kept(pl, id))
        /\ \A i \in Kept(pl, id) :
             r[Cardinality({j \in Kept(pl, id) : j <= i})] = pl[i]
        /\ \A i \in 1..Len(r) : r[i] # id
        /\ (\A i \in 1..Len(pl) : pl[i] # id) => r = pl

C23_Witness ==
  /\ lastOp.op = "removeFromPlaylist"
  /\ lastOp.arg = "T1"
  /\ lastOp.upd # NoWrite
  /\ doc # Null
  /\ roomState[lastOp.who].playlist = <<"T1", "T1">>
  /\ doc.playlist = <<>>

\* C24: at no point do two different clients both pass the host gate of the
\* room (roomState non-null and isHost true in the render of each), in every
\* order in which the push of a host transfer is delivered to the old and to
\* the new host.
C24_AtMostOneClientPassesGate ==
  Cardinality({c \in Clients : Gate(Render(c))}) <= 1

\* C25: while the document's isPlaying is false (a pause has been applied
\* and no resume or play since), no polling tick changes the document's
\* currentTime.
C25_NoPositionPublishedWhilePaused ==
  [][(/\ lastOp'.op = "positionTick"
      /\ doc # Null
      /\ ~doc.isPlaying)
     => /\ doc' # Null
        /\ doc'.currentTime = doc.currentTime]_vars

\* C26: on a polling tick with reading t the client whose view makes it host
\* hands currentTime = t to the gateway exactly when floor(t) mod 3 = 0, that
\* is when t lies in [3k, 3k + 1) for some k, and nothing on the other ticks; a
\* client that is not host hands over nothing; the reading is shown on every
\* tick.
C26_PublishesIffFloorMultipleOfThree ==
  lastOp.op = "pollingTick" =>
    /\ lastOp.shown = lastOp.arg
    /\ lastOp.upd =
         IF /\ isHost(lastOp.who)
            /\ \E k \in 0..MaxPos :
                 /\ 2 * PublishEvery * k <= lastOp.arg
                 /\ lastOp.arg < 2 * (PublishEvery * k + 1)
           THEN [currentTime |-> lastOp.arg]
           ELSE NoWrite

C26_Witness ==
  /\ lastOp.op = "pollingTick"
  /\ isHost(lastOp.who)
  /\ lastOp.arg = 2 * PublishEvery + 1
  /\ lastOp.upd = [currentTime |-> 2 * PublishEvery + 1]
  /\ lastOp.shown = lastOp.arg

\* C27: while the adapter of a client has not signalled readiness, the
\* room-sync effect and its timeout issue no command to it and leave it as it
\* is, and a track selection of the host appends the track to the playlist and
\* issues no playTrack: currentTrack, isPlaying and currentTime of the document
\* stay as they were.
C27_NothingPlayedBeforeReady ==
  [][\A c \in Listeners :
       ~isPlayerReady[c] =>
         /\ (lastOp'.op \in {"roomSync", "syncTimer"} /\ lastOp'.who = c)
              => /\ lastOp'.cmds = <<>>
                 /\ lastOp'.init = <<>>
                 /\ playerRef'[c] = playerRef[c]
                 /\ position'[c] = position[c]
                 /\ timeouts'[c] = timeouts[c]
         /\ (/\ lastOp'.op = "handleTrackSelect"
             /\ lastOp'.who = c
             /\ Gate(Render(c))
             /\ doc # Null)
              => /\ lastOp'.upd =
                      [playlist |-> Append(roomState[c].playlist, lastOp'.arg)]
                 /\ lastOp'.play = NoWrite
                 /\ doc' # Null
                 /\ doc'.playlist = Append(roomState[c].playlist, lastOp'.arg)
                 /\ doc'.currentTrack = doc.currentTrack
                 /\ doc'.isPlaying = doc.isPlaying
                 /\ doc'.currentTime = doc.currentTime]_vars

C27_Witness ==
  /\ lastOp.op = "handleTrackSelect"
  /\ lastOp.arg = "T2"
  /\ lastOp.play = NoWrite
  /\ ~isPlayerReady[lastOp.who]
  /\ playerRef[lastOp.who].videoId = NoTrack
  /\ doc # Null
  /\ doc.playlist = <<"T1", "T2">>
  /\ doc.currentTrack = "T1"

\* C28: the document's volume is always an integer in 0..100, and a step
\* changes it only if it is a volume change of the client that is the
\* document's host; the volume change or mute toggle of any other client
\* leaves it as it was.
C28_VolumeChangedOnlyByHost ==
  [][/\ doc' # Null => doc'.volume \in 0..100
     /\ (doc # Null /\ doc' # Null /\ doc'.volume # doc.volume)
          => /\ lastOp'.op = "setVolume"
             /\ lastOp'.who = doc.hostId]_vars

\* the versions a subscribed client still has to observe end with the stored
\* document
CaughtUpTo(c) ==
  IF inbox[c] = <<>> THEN roomState[c] = doc
  ELSE inbox[c][Len(inbox[c])] = doc

\* C29: every write is queued, as the document it produced, for every
\* subscribed client; the view of a client changes only to the oldest version
\* queued for it (or to null when it leaves), so it always is a version the
\* store held and versions are taken in the store's order; the newest version
\* queued for a subscribed client is the stored document, and in the end the
\* view of every subscribed client is the stored document.
C29_SubscribersObserveStoreVersionsInOrder ==
  /\ [][\A c \in Clients :
          /\ (Listening(subs, c) /\ Listening(subs', c) /\ writes' # writes)
               => inbox'[c] = Append(inbox[c], doc')
          /\ roomState'[c] # roomState[c]
               => \/ /\ inbox[c] # <<>>
                     /\ roomState'[c] = Head(inbox[c])
                     /\ inbox'[c] = Tail(inbox[c])
                  \/ /\ lastOp'.op = "leaveCurrentRoom"
                     /\ lastOp'.who = c
                     /\ roomState'[c] = Null
          /\ Listening(subs', c) => CaughtUpTo(c)']_vars
  /\ <>[](\A c \in Clients : Listening(subs, c) => roomState[c] = doc)

C29_Witness ==
  /\ Listening(subs, "bob")
  /\ Len(inbox["bob"]) = 2
  /\ inbox["bob"][1] # inbox["bob"][2]
  /\ roomState["bob"] # Null
  /\ roomState["bob"] # inbox["bob"][1]
  /\ inbox["bob"][2] = doc

\* C30: in every state of every client, isHost implies that the client is
\* connected: roomState and currentUser are both non-null (and then the
\* room's hostId is the client's id).
C30_IsHostImpliesConnected ==
  \A c \in Clients :
    isHost(c) => /\ isConnected(c)
                 /\ currentUser[c] # Null
                 /\ roomState[c].hostId = currentUser[c].id

\* the fields of the partial document each intent hands to updateRoomState;
\* the polling tick writes through updateCurrentTime, the ENDED handler
\* through playTrack
IntentFields(name) ==
  CASE name \in {"playTrack", "ended"} -> {"currentTrack", "isPlaying", "currentTime"}
    [] name = "pauseTrack" -> {"isPlaying", "currentTime"}
    [] name = "resumeTrack" -> {"isPlaying"}
    [] name \in {"addToPlaylist", "removeFromPlaylist"} -> {"playlist"}
    [] name \in {"updateCurrentTime", "positionTick"} -> {"currentTime"}
    [] name = "setVolume" -> {"volume"}
    [] name = "transferHost" -> {"hostId"}

\* C31: each host intent writes its own fields and leaves every other field
\* of the document as it was: playTrack writes currentTrack, isPlaying and
\* currentTime, pauseTrack isPlaying and currentTime, resumeTrack isPlaying,
\* addToPlaylist and removeFromPlaylist playlist, updateCurrentTime
\* currentTime, setVolume volume, transferHost hostId; none but transferHost
\* changes hostId and none changes id or members.
C31_IntentWritesOnlyItsFields ==
  [][(lastOp'.op \in IntentCalls /\ doc # Null)
     => /\ doc' # Null
        /\ lastOp'.upd # NoWrite => DOMAIN lastOp'.upd = IntentFields(lastOp'.op)
        /\ \A f \in DOMAIN doc \ IntentFields(lastOp'.op) : doc'[f] = doc[f]
        /\ lastOp'.op # "transferHost" => doc'.hostId = doc.hostId
        /\ doc'.id = doc.id
        /\ doc'.members = doc.members]_vars

C31_Witness ==
  /\ lastOp.op = "pauseTrack"
  /\ lastOp.upd # NoWrite
  /\ doc # Null
  /\ ~doc.isPlaying
  /\ doc.currentTrack # NoTrack
  /\ doc.volume # InitialVolume

\* the reconciliation of a track change has completed on c: the 1000 ms
\* timeout of the load has just run, no timeout is pending, the view is the
\* document and its track is the one loaded
TrackChangeReconciled(c) ==
  /\ lastOp.op = "syncTimer"
  /\ lastOp.who = c
  /\ timeouts[c].sync = <<>>
  /\ timeouts[c].pause = <<>>
  /\ Settled(c)
  /\ doc.currentTrack # NoTrack
  /\ playerRef[c].videoId = doc.currentTrack

\* C32: once the reconciliation of a track change has completed (the 1000 ms
\* timeout after the load has run and none is pending), the adapter is playing
\* if and only if the document's isPlaying is true, also when isPlaying or
\* currentTime changed in the document between the load and the timeout.
C32_ReconciledAdapterFollowsDocument ==
  \A c \in Listeners :
    TrackChangeReconciled(c) => playerRef[c].playing = doc.isPlaying

\* C33: when the document is changed through the player's user interface
\* only (track selection, the remove button, which is hidden on the current
\* track, and auto-advance), the document's currentTrack, whenever present, is
\* an entry of the document's playlist, also when a remove is issued from a
\* view that has not received the push of an earlier write.
C33_CurrentTrackIsInPlaylist ==
  (doc # Null /\ doc.currentTrack # NoTrack)
    => \E i \in 1..Len(doc.playlist) : doc.playlist[i] = doc.currentTrack

\* C34: when the adapter reports ENDED on a client whose view passes the host
\* gate while the view's currentTrack is no entry of its playlist and the
\* playlist has two entries or more, Play is issued for the first playlist
\* entry.
C34_EndedWithoutCurrentPlaysFirst ==
  (/\ lastOp.op = "ended"
   /\ Gate(Render(lastOp.who))
   /\ Len(roomState[lastOp.who].playlist) >= 2
   /\ FindIndex(roomState[lastOp.who].playlist,
                roomState[lastOp.who].currentTrack) = -1)
  => lastOp.upd = [currentTrack |-> roomState[lastOp.who].playlist[1],
                   isPlaying |-> TRUE, currentTime |-> 0]

\* C35: a declared track is not lost because it arrived before the adapter
\* was ready: whenever the adapter of a joined client is ready and the
\* client's view declares track t, the client eventually issues the load of t
\* (the adapter has t loaded), unless the view moves on to another track
\* first.
C35_DeclaredTrackLoadedOnceReady ==
  \A c \in Guests : \A t \in Tracks :
    (isPlayerReady[c] /\ ViewTrack(c) = t)
      ~> (playerRef[c].videoId = t \/ ViewTrack(c) # t)

\* the load of a track that was in the view of bob before his adapter was
\* ready
C35_Witness ==
  /\ lastOp.op = "roomSync"
  /\ lastOp.who = "bob"
  /\ lastOp.branch = "load"
  /\ writes = 0
  /\ isPlayerReady["bob"]
  /\ lastOp.cmds = <<Load(roomState["bob"].currentTrack)>>
  /\ playerRef["bob"].videoId = doc.currentTrack

\* initializePlayer has given up or failed on c
InitializerFailed(c) ==
  initializer[c].status \in {"Failed to initialize player", "Error creating player"}

\* C36: the initialization of the adapter terminates: once initializePlayer
\* is scheduled, eventually no call of it is pending and it has either created
\* the player or ended with a failure status; it gives up after maxRetries
\* (30) retries at the latest, schedules no retry after giving up, and creates
\* at most one player for a view.
C36_InitializationTerminates ==
  /\ [](\A c \in Listeners :
          /\ initializer[c].players <= 1
          /\ initializer[c].retryCount <= maxRetries + 1
          /\ (initializer[c].timers > 0 /\ ~initializer[c].ref)
               => initializer[c].retryCount <= maxRetries
          /\ initializer[c].status = "Failed to initialize player"
               => /\ initializer[c].timers = 0
                  /\ initializer[c].retryCount = maxRetries + 1
                  /\ initializer[c].players = 0)
  /\ \A c \in Listeners :
       (initializer[c].timers > 0)
         ~> /\ initializer[c].timers = 0
            /\ initializer[c].players = 1 \/ InitializerFailed(c)

\* initializePlayer has given up after its last retry
C36_Witness ==
  /\ initializer["alice"].status = "Failed to initialize player"
  /\ initializer["alice"].retryCount = maxRetries + 1
  /\ initializer["alice"].timers = 0
  /\ initializer["alice"].players = 0
  /\ initializer["alice"].api = "ready"

====
